---- MODULE Spec2Model ----
(***************************************************************************)
(* Physics kernel of src/electro.js: electric and magnetic field           *)
(* evaluation, computeAccelerations, the semi-implicit Euler step          *)
(* (stepPhysics), the RK4 step (stepPhysicsRK4) and the field-based Euler  *)
(* step (stepPhysicsUsingFields); and the page around it: the mouse        *)
(* handlers that drag charges and magnets, the integrator buttons and the  *)
(* animation loop (SpecDrag).                                              *)
(*                                                                         *)
(* Numbers.  A JavaScript Number is modelled as <<n, d, e>>, the value     *)
(* (n / d) * 2^e with n and d odd and coprime, d > 0 (zero is <<0, 1, 0>>),*)
(* so that equal values are equal tuples.  Every arithmetic operation of   *)
(* the source is one operator here (Add, Sub, Mul, Div, Sqrt, Hypot) that  *)
(* takes the exact result and rounds it to the nearest value with a        *)
(* prec-bit significand, ties to even, as IEEE-754 does with 53 bits.  The *)
(* exponent is unbounded: overflow, underflow, NaN and the sign of zero    *)
(* are not modelled, and the only infinity is the option value             *)
(* maxAccel = Infinity.  The variable prec holds the width of the          *)
(* significand; prec = 0 stands for arithmetic without rounding (the       *)
(* real-number reading of the formulas), used by SpecIdeal on inputs whose *)
(* square roots are rational.                                              *)
(*                                                                         *)
(* The local constants of a source function (dx, r2, force, ...) are the   *)
(* parameters of the operators that model its statements.                  *)
(***************************************************************************)
EXTENDS Integers, Sequences, FiniteSets, TLC

VARIABLES prec, options, charges, magnets, start, pre, last, stages, probe, steps,
          dragging, draggingType, useRK4, mouse, grip, events

vars ==
    <<prec, options, charges, magnets, start, pre, last, stages, probe, steps,
      dragging, draggingType, useRK4, mouse, grip, events>>

\* Width of the significand under Spec (53 in the program).
Precision == 5
\* Number of kernel calls in one behaviour of Spec.
MaxSteps == 2

----------------------------------------------------------------------------
\* Integer helpers

IAbs(i) == IF i < 0 THEN -i ELSE i
IMin(i, j) == IF i < j THEN i ELSE j

RECURSIVE GCD(_, _)
GCD(a, b) == IF b = 0 THEN a ELSE GCD(b, a % b)

\* the number of binary digits of n >= 0
RECURSIVE BitLen(_)
BitLen(n) ==
    IF n < 16 THEN <<0, 1, 2, 2, 3, 3, 3, 3, 4, 4, 4, 4, 4, 4, 4, 4>>[n + 1]
    ELSE 4 + BitLen(n \div 16)

\* the number of trailing zero digits of n > 0
RECURSIVE TrailingZeros(_)
TrailingZeros(n) == IF n % 2 = 1 THEN 0 ELSE 1 + TrailingZeros(n \div 2)

\* floor(sqrt(n)) by bisection on [lo, hi), lo*lo <= n < hi*hi
RECURSIVE ISqrtIn(_, _, _)
ISqrtIn(n, lo, hi) ==
    IF hi - lo <= 1 THEN lo
    ELSE IF ((lo + hi) \div 2) * ((lo + hi) \div 2) <= n THEN ISqrtIn(n, (lo + hi) \div 2, hi)
    ELSE ISqrtIn(n, lo, (lo + hi) \div 2)

\* floor(sqrt(n)) for n of len digits: 2^((len-1)/2) <= sqrt(n) < 2^((len+1)/2),
\* and below 46341 as n < 2^31
ISqrtOf(n, len) == ISqrtIn(n, 2^((len - 1) \div 2), IMin(46341, 2^((len + 1) \div 2) + 1))
ISqrt(n) == IF n = 0 THEN 0 ELSE ISqrtOf(n, BitLen(n))

IsRootOf(r, n) == r * r = n
IsSquare(n) == IsRootOf(ISqrt(n), n)

\* a loop over indices 1..n in order, its results collected as a sequence
RECURSIVE ForEach(_, _)
ForEach(f, n) == IF n = 0 THEN <<>> ELSE Append(ForEach(f, n - 1), f[n])

----------------------------------------------------------------------------
\* Exact values (n / d) * 2^e in normal form

Zero == <<0, 1, 0>>
One == <<1, 1, 0>>

\* n / d * 2^e with the powers of two tn of n and td of d moved into e
Shifted(n, d, e, tn, td) == <<n \div 2^tn, d \div 2^td, e + tn - td>>
Lowest(n, d, e, g) ==
    Shifted(n \div g, d \div g, e, TrailingZeros(IAbs(n) \div g), TrailingZeros(d \div g))

\* the normal form of n / d * 2^e, d > 0
Norm(n, d, e) ==
    IF n = 0 THEN Zero ELSE Lowest(n, d, e, IF d = 1 THEN 1 ELSE GCD(IAbs(n), d))

Rat(n, d) == Norm(n, d, 0)

IsZero(a) == a[1] = 0
Sign(a) == IF a[1] > 0 THEN 1 ELSE IF a[1] < 0 THEN -1 ELSE 0
Neg(a) == <<-a[1], a[2], a[3]>>
Abs(a) == <<IAbs(a[1]), a[2], a[3]>>

\* |a| lies strictly between 2^(Mag(a) - 1) and 2^(Mag(a) + 1), a # 0
Mag(a) == BitLen(IAbs(a[1])) - BitLen(a[2]) + a[3]

\* |a| < |b| for a, b # 0 whose Mag differ by less than 2, e = min(a[3], b[3])
MagLtAt(a, b, e) == IAbs(a[1]) * b[2] * 2^(a[3] - e) < IAbs(b[1]) * a[2] * 2^(b[3] - e)
MagLtBy(a, b, ma, mb) ==
    IF ma + 2 <= mb THEN TRUE
    ELSE IF mb + 2 <= ma THEN FALSE
    ELSE MagLtAt(a, b, IMin(a[3], b[3]))
\* |a| < |b| for a, b # 0
MagLt(a, b) == MagLtBy(a, b, Mag(a), Mag(b))

Lt(a, b) ==
    IF Sign(a) # Sign(b) THEN Sign(a) < Sign(b)
    ELSE IF Sign(a) = 0 THEN FALSE
    ELSE IF Sign(a) > 0 THEN MagLt(a, b)
    ELSE MagLt(b, a)
Gt(a, b) == Lt(b, a)
Le(a, b) == ~Lt(b, a)

\* a + b with g = gcd of the denominators and e = min of the exponents
QAddAt(a, b, g, e) ==
    Norm(a[1] * 2^(a[3] - e) * (b[2] \div g) + b[1] * 2^(b[3] - e) * (a[2] \div g),
         (a[2] \div g) * b[2], e)
QAdd(a, b) ==
    IF IsZero(a) THEN b
    ELSE IF IsZero(b) THEN a
    ELSE QAddAt(a, b, IF a[2] = 1 \/ b[2] = 1 THEN 1 ELSE GCD(a[2], b[2]), IMin(a[3], b[3]))

\* a * b with g1 = gcd(|a[1]|, b[2]) and g2 = gcd(|b[1]|, a[2])
QMulBy(a, b, g1, g2) ==
    <<(a[1] \div g1) * (b[1] \div g2), (a[2] \div g2) * (b[2] \div g1), a[3] + b[3]>>
QMul(a, b) ==
    IF IsZero(a) \/ IsZero(b) THEN Zero
    ELSE QMulBy(a, b, IF b[2] = 1 THEN 1 ELSE GCD(IAbs(a[1]), b[2]),
                      IF a[2] = 1 THEN 1 ELSE GCD(IAbs(b[1]), a[2]))

\* 1 / a, a # 0
QInv(a) == <<Sign(a) * a[2], IAbs(a[1]), -a[3]>>

----------------------------------------------------------------------------
\* Rounding to a p-bit significand, round-half-to-even

\* the integer nearest to a/d (a >= 0, d > 0), ties to even
NearestEven(a, d) ==
    IF 2 * (a % d) > d \/ (2 * (a % d) = d /\ (a \div d) % 2 = 1)
    THEN (a \div d) + 1 ELSE a \div d

\* a/d * 2^s >= 2^(p-1)
Reaches(a, d, s, p) == IF s >= 0 THEN a * 2^s >= d * 2^(p - 1) ELSE a >= d * 2^(p - 1 - s)

\* a/d * 2^s rounded to an integer
RoundScaled(a, d, s) ==
    NearestEven(IF s >= 0 THEN a * 2^s ELSE a, IF s >= 0 THEN d ELSE d * 2^(-s))

\* x # 0 rounded to p digits: |x[1]| / x[2] * 2^s0 lies in [2^(p-2), 2^p), so
\* the scale s that brings it into [2^(p-1), 2^p) is s0 or s0 + 1
RoundAt(x, s) == Norm(Sign(x) * RoundScaled(IAbs(x[1]), x[2], s), 1, x[3] - s)
RoundFrom(x, p, s0) == RoundAt(x, IF Reaches(IAbs(x[1]), x[2], s0, p) THEN s0 ELSE s0 + 1)

RoundTo(x, p) ==
    IF x[1] = 0 THEN Zero
    ELSE RoundFrom(x, p, p - 1 - (BitLen(IAbs(x[1])) - BitLen(x[2])))

Round(x) == IF prec = 0 THEN x ELSE RoundTo(x, prec)

\* a numeric literal of the source, as the Number it denotes
Lit(n, d) == Round(Rat(n, d))

----------------------------------------------------------------------------
\* The arithmetic of the source

\* b is less than a quarter of the last digit of a (a, b # 0), so that
\* a + b and a - b round to a
Negligible(b, a) == prec # 0 /\ Mag(b) + prec + 3 <= Mag(a)

Add(a, b) ==
    IF IsZero(b) THEN a
    ELSE IF IsZero(a) THEN b
    ELSE IF Negligible(b, a) THEN a
    ELSE IF Negligible(a, b) THEN b
    ELSE Round(QAdd(a, b))
Sub(a, b) == Add(a, Neg(b))
Mul(a, b) == IF IsZero(a) \/ IsZero(b) THEN Zero ELSE Round(QMul(a, b))
Div(a, b) == IF IsZero(a) THEN Zero ELSE Round(QMul(a, QInv(b)))

\* sqrt(x) rounded to p digits, x > 0.  With the exponent made even
\* (x = n/d * 4^h), the fraction n/d is scaled by 4^t into (1/2, 4); the
\* integer root y of m = floor(n/d * 4^(t+p+2)) has at least p+2 digits, and a
\* sticky half stands for what the floor and the integer root cut off.
SqrtSticky(m, exact, y, e, p) ==
    RoundTo(<<2 * y + (IF exact /\ y * y = m THEN 0 ELSE 1), 1, e>>, p)
SqrtFloor(m, exact, e, p) == SqrtSticky(m, exact, ISqrt(m), e, p)
SqrtScaled(n, d, s, e, p) ==
    IF s >= 0 THEN SqrtFloor((n * 2^s) \div d, (n * 2^s) % d = 0, e, p)
    ELSE SqrtFloor(n \div (d * 2^(-s)), n % (d * 2^(-s)) = 0, e, p)
SqrtAt(n, d, h, p, t) == SqrtScaled(n, d, 2 * (t + p + 2), h - t - p - 3, p)
SqrtEven(n, d, h, p) == SqrtAt(n, d, h, p, -((BitLen(n) - BitLen(d)) \div 2))
SqrtOdd(x, odd, p) == SqrtEven(x[1] * (1 + odd), x[2], (x[3] - odd) \div 2, p)
SqrtRounded(x, p) == SqrtOdd(x, x[3] % 2, p)

\* exact when prec = 0 and x is the square of a rational, else rounded (to
\* Precision digits when prec = 0: an irrational root has no exact value here)
QSqrt(x) ==
    IF x[1] = 0 THEN Zero
    ELSE IF prec # 0 THEN SqrtRounded(x, prec)
    ELSE IF x[3] % 2 = 0 /\ IsSquare(x[1]) /\ IsSquare(x[2])
    THEN <<ISqrt(x[1]), ISqrt(x[2]), x[3] \div 2>>
    ELSE SqrtRounded(x, Precision)

Sqrt(x) == QSqrt(x)

\* Math.hypot, taken as the correctly rounded sqrt(x*x + y*y); the smaller
\* argument is dropped when it cannot change the rounded result
Hypot(x, y) ==
    IF IsZero(y) THEN Abs(x)
    ELSE IF IsZero(x) THEN Abs(y)
    ELSE IF prec # 0 /\ Mag(y) + prec + 2 <= Mag(x) THEN Abs(x)
    ELSE IF prec # 0 /\ Mag(x) + prec + 2 <= Mag(y) THEN Abs(y)
    ELSE QSqrt(QAdd(QMul(x, x), QMul(y, y)))

----------------------------------------------------------------------------
\* Option values: a Number, a missing key, or Infinity

Missing == <<0, 0, 0>>
Infinity == <<1, 0, 0>>

\* options.key ?? dflt : only a missing key takes the default, 0 does not
OrDefault(v, dflt) == IF v = Missing THEN dflt ELSE v

\* x > bound, where bound may be Infinity
GtBound(x, bound) == IF bound = Infinity THEN FALSE ELSE Gt(x, bound)

----------------------------------------------------------------------------
\* electricFieldAt, magneticFieldAt, totalMagneticFieldAt

\* r2 = dx*dx + dy*dy + eps*eps
SoftR2(dx, dy, eps) == Add(Add(Mul(dx, dx), Mul(dy, dy)), Mul(eps, eps))

\* the slip of an inverse square in the place of the inverse cube
InvR2(r2) == Div(One, r2)

\* invR3 = 1 / (Math.sqrt(r2) * r2)
InvR3(r2) == Div(One, Mul(Sqrt(r2), r2))

\* Ex += factor * dx; Ey += factor * dy
FieldPlus(E, factor, dx, dy) ==
    [Ex |-> Add(E.Ex, Mul(factor, dx)), Ey |-> Add(E.Ey, Mul(factor, dy))]

\* the contribution of the charge c at distance (dx, dy), added to E
FieldFrom(E, c, k, eps, dx, dy) ==
    FieldPlus(E, Mul(Mul(k, c.q), InvR3(SoftR2(dx, dy, eps))), dx, dy)

\* one pass of the loop over the charges
ElectricTerm(E, x, y, c, k, eps) == FieldFrom(E, c, k, eps, Sub(x, c.x), Sub(y, c.y))

RECURSIVE ElectricLoop(_, _, _, _, _, _, _)
ElectricLoop(E, n, x, y, cs, k, eps) ==
    IF n > Len(cs) THEN E
    ELSE ElectricLoop(ElectricTerm(E, x, y, cs[n], k, eps), n + 1, x, y, cs, k, eps)

\* the slip of a default softening of 0 in the place of 0.1
electricFieldAtUnsoftened(x, y, cs, o) ==
    ElectricLoop([Ex |-> Zero, Ey |-> Zero], 1, x, y, cs,
                 OrDefault(o.k, One), OrDefault(o.softening, Zero))

electricFieldAt(x, y, cs, o) ==
    ElectricLoop([Ex |-> Zero, Ey |-> Zero], 1, x, y, cs,
                 OrDefault(o.k, One), OrDefault(o.softening, Lit(1, 10)))

\* Math.cos and Math.sin at the only angle a magnet has: addMagnet creates
\* magnets at angle 0 and nothing changes it
Cos(a) == One
Sin(a) == Zero

\* Bx = (3 * dot * dx / r5) - (mx / r3), and By likewise
DipoleField(dx, dy, mx, my, dot, r5, r3) ==
    [Bx |-> Sub(Div(Mul(Mul(Lit(3, 1), dot), dx), r5), Div(mx, r3)),
     By |-> Sub(Div(Mul(Mul(Lit(3, 1), dot), dy), r5), Div(my, r3))]
\* r5 = r2 * r2 * r; r3 = r2 * r
DipoleWith(dx, dy, mx, my, r2, r, dot) ==
    DipoleField(dx, dy, mx, my, dot, Mul(Mul(r2, r2), r), Mul(r2, r))
\* r = Math.sqrt(r2); dot = mx * dx + my * dy
DipoleAt(dx, dy, mx, my, r2) ==
    DipoleWith(dx, dy, mx, my, r2, Sqrt(r2), Add(Mul(mx, dx), Mul(my, dy)))
DipoleOf(dx, dy, mx, my, soft) == DipoleAt(dx, dy, mx, my, SoftR2(dx, dy, soft))

magneticFieldAt(x, y, magnet, o) ==
    DipoleOf(Sub(x, magnet.x), Sub(y, magnet.y),
             Mul(magnet.strength, Cos(magnet.angle)),
             Mul(magnet.strength, Sin(magnet.angle)),
             OrDefault(o.softening, Lit(1, 10)))

\* Bx += B.Bx; By += B.By
MagneticPlus(T, B) == [Bx |-> Add(T.Bx, B.Bx), By |-> Add(T.By, B.By)]

RECURSIVE MagneticLoop(_, _, _, _, _, _)
MagneticLoop(T, n, x, y, ms, o) ==
    IF n > Len(ms) THEN T
    ELSE MagneticLoop(MagneticPlus(T, magneticFieldAt(x, y, ms[n], o)), n + 1, x, y, ms, o)

\* the slip of a sum that does not start from zero
totalMagneticFieldBiased(x, y, ms, o) == MagneticLoop([Bx |-> One, By |-> Zero], 1, x, y, ms, o)

totalMagneticFieldAt(x, y, ms, o) == MagneticLoop([Bx |-> Zero, By |-> Zero], 1, x, y, ms, o)

----------------------------------------------------------------------------
\* computeAccelerations

\* a computeAccelerations that adds to the ax, ay it finds
ZeroAccelerationsSkipped(cs) == cs

\* charges[i].ax = 0; charges[i].ay = 0
ZeroAccelerations(cs) ==
    ForEach([i \in 1..Len(cs) |-> [cs[i] EXCEPT !.ax = Zero, !.ay = Zero]], Len(cs))

\* if (mag > maxAccel) { s = maxAccel / mag; x_inc *= s; y_inc *= s }
Scaled(x_inc, y_inc, s) == <<Mul(x_inc, s), Mul(y_inc, s)>>
\* the slip of a missing clamp
Unclamped(x_inc, y_inc, maxAccel, mag) == <<x_inc, y_inc>>
Clamped(x_inc, y_inc, maxAccel, mag) ==
    IF GtBound(mag, maxAccel) THEN Scaled(x_inc, y_inc, Div(maxAccel, mag))
    ELSE <<x_inc, y_inc>>
\* one side's increment after the clamp
ClampIncrement(x_inc, y_inc, maxAccel) == Clamped(x_inc, y_inc, maxAccel, Hypot(x_inc, y_inc))

\* force = k * a.q * b.q * invR3, with r = Math.sqrt(r2), invR3 = 1 / (r * r2)
PairForce(a, b, k, r2) == Mul(Mul(Mul(k, a.q), b.q), InvR3(r2))

\* the slip of the same sign of the force on both sides
PairSidesAlike(a, b, maxAccel, fx, fy) ==
    [a |-> ClampIncrement(Div(fx, a.m), Div(fy, a.m), maxAccel),
     b |-> ClampIncrement(Div(fx, b.m), Div(fy, b.m), maxAccel)]

\* the increments of the pair (a, b) from the force (fx, fy): a gets
\* (fx / a.m, fy / a.m), b gets (-fx / b.m, -fy / b.m), each clamped
PairSides(a, b, maxAccel, fx, fy) ==
    [a |-> ClampIncrement(Div(fx, a.m), Div(fy, a.m), maxAccel),
     b |-> ClampIncrement(Div(Neg(fx), b.m), Div(Neg(fy), b.m), maxAccel)]
\* fx = force * dx; fy = force * dy
PairWith(a, b, maxAccel, dx, dy, force) ==
    PairSides(a, b, maxAccel, Mul(force, dx), Mul(force, dy))
PairAt(a, b, k, soft, maxAccel, dx, dy) ==
    PairWith(a, b, maxAccel, dx, dy, PairForce(a, b, k, SoftR2(dx, dy, soft)))
\* dx = a.x - b.x; dy = a.y - b.y
PairIncrements(a, b, k, soft, maxAccel) ==
    PairAt(a, b, k, soft, maxAccel, Sub(a.x, b.x), Sub(a.y, b.y))

\* a.ax += ax_inc; a.ay += ay_inc; b.ax += bx_inc; b.ay += by_inc
Accumulate(cs, i, j, inc) ==
    [cs EXCEPT ![i].ax = Add(@, inc.a[1]), ![i].ay = Add(@, inc.a[2]),
               ![j].ax = Add(@, inc.b[1]), ![j].ay = Add(@, inc.b[2])]
\* the body of the double loop for the pair i < j
PairStep(cs, i, j, k, soft, maxAccel) ==
    Accumulate(cs, i, j, PairIncrements(cs[i], cs[j], k, soft, maxAccel))

\* for i, for j = i + 1 ..
RECURSIVE PairLoop(_, _, _, _, _, _)
PairLoop(cs, i, j, k, soft, maxAccel) ==
    IF i > Len(cs) THEN cs
    ELSE IF j > Len(cs) THEN PairLoop(cs, i + 1, i + 2, k, soft, maxAccel)
    ELSE PairLoop(PairStep(cs, i, j, k, soft, maxAccel), i, j + 1, k, soft, maxAccel)

\* fx = c.q * (perp_x / perp_mag) * Bmag * vmag, and fy likewise
MagneticForce(c, Bmag, vmag, perp_x, perp_y, perp_mag) ==
    <<Mul(Mul(Mul(c.q, Div(perp_x, perp_mag)), Bmag), vmag),
      Mul(Mul(Mul(c.q, Div(perp_y, perp_mag)), Bmag), vmag)>>
\* the slip of exchanged components of the perpendicular
MagneticSwapped(c, Bmag, vmag, perp_x, perp_y) ==
    MagneticForce(c, Bmag, vmag, perp_y, perp_x, Hypot(perp_x, perp_y))

\* perp_x = -c.vy; perp_y = c.vx; perp_mag = Math.hypot(perp_x, perp_y);
\* the term added to the acceleration is (fx / c.m, fy / c.m)
MagneticPerp(c, Bmag, vmag, perp_x, perp_y) ==
    MagneticForce(c, Bmag, vmag, perp_x, perp_y, Hypot(perp_x, perp_y))
MagneticAccel(c, f) == <<Div(f[1], c.m), Div(f[2], c.m)>>
MagneticTerm(c, Bmag, vmag) == MagneticAccel(c, MagneticPerp(c, Bmag, vmag, Neg(c.vy), c.vx))

\* c.ax += fx / c.m; c.ay += fy / c.m
LorentzPlus(c, term) == [c EXCEPT !.ax = Add(@, term[1]), !.ay = Add(@, term[2])]
\* if (vmag > 0 && Bmag > 0) { ... }
LorentzWith(c, Bmag, vmag) ==
    IF Gt(vmag, Zero) /\ Gt(Bmag, Zero) THEN LorentzPlus(c, MagneticTerm(c, Bmag, vmag))
    ELSE c
\* Bmag = Math.hypot(B.Bx, B.By); vmag = Math.hypot(c.vx, c.vy)
LorentzIn(c, B) == LorentzWith(c, Hypot(B.Bx, B.By), Hypot(c.vx, c.vy))
\* the body of the loop "Magnetic Lorentz force"
LorentzStep(c, ms, o) == LorentzIn(c, totalMagneticFieldAt(c.x, c.y, ms, o))

LorentzLoop(cs, ms, o) == ForEach([i \in 1..Len(cs) |-> LorentzStep(cs[i], ms, o)], Len(cs))

\* the accelerations after the loop over the pairs
Electrostatic(cs, o) ==
    PairLoop(ZeroAccelerations(cs), 1, 2, OrDefault(o.k, One),
             OrDefault(o.softening, Lit(1, 10)), OrDefault(o.maxAccel, Lit(2000, 1)))

computeAccelerations(cs, ms, o) == LorentzLoop(Electrostatic(cs, o), ms, o)

\* a division by zero (a non-finite value in the program): only with
\* softening 0, for two charges at one point or a charge on a magnet
Coincide(a, b) == a.x = b.x /\ a.y = b.y
Singular(cs, ms, o) ==
    /\ IsZero(OrDefault(o.softening, Lit(1, 10)))
    /\ \/ \E i, j \in 1..Len(cs) : i < j /\ Coincide(cs[i], cs[j])
       \/ \E i \in 1..Len(cs), n \in 1..Len(ms) : Coincide(cs[i], ms[n])

----------------------------------------------------------------------------
\* stepPhysics

\* the slip of an explicit Euler step: the position advanced with the old velocity
MovedExplicit(p, dt, vx, vy) ==
    [p EXCEPT !.vx = vx, !.vy = vy, !.x = Add(@, Mul(p.vx, dt)), !.y = Add(@, Mul(p.vy, dt))]

\* p.x += p.vx * dt; p.y += p.vy * dt, with the velocity (vx, vy) just set
Moved(p, dt, vx, vy) ==
    [p EXCEPT !.vx = vx, !.vy = vy, !.x = Add(@, Mul(vx, dt)), !.y = Add(@, Mul(vy, dt))]
\* the slip of a missing test of p.pinned
EulerUpdateAll(p, dt, damping) ==
    Moved(p, dt, Mul(Add(p.vx, Mul(p.ax, dt)), damping),
                 Mul(Add(p.vy, Mul(p.ay, dt)), damping))

\* p.vx += p.ax * dt; p.vx *= damping, and p.vy likewise
EulerUpdate(p, dt, damping) ==
    IF p.pinned THEN p
    ELSE Moved(p, dt, Mul(Add(p.vx, Mul(p.ax, dt)), damping),
                      Mul(Add(p.vy, Mul(p.ay, dt)), damping))

\* the loop "integrate (semi-implicit Euler)"
Integrate(cs, dt, damping) ==
    ForEach([i \in 1..Len(cs) |-> EulerUpdate(cs[i], dt, damping)], Len(cs))

stepPhysics(cs, ms, dt, o) ==
    Integrate(computeAccelerations(cs, ms, o), dt, OrDefault(o.damping, One))

----------------------------------------------------------------------------
\* stepPhysicsRK4

\* state0 = charges.map(c => ({x, y, vx, vy}))
Snapshot(cs) ==
    ForEach([i \in 1..Len(cs) |->
                [x |-> cs[i].x, y |-> cs[i].y, vx |-> cs[i].vx, vy |-> cs[i].vy]], Len(cs))

\* kn = charges.map(c => ({vx: c.ax, vy: c.ay, x: c.vx, y: c.vy}))
Derivative(cs) ==
    ForEach([i \in 1..Len(cs) |->
                [vx |-> cs[i].ax, vy |-> cs[i].ay, x |-> cs[i].vx, y |-> cs[i].vy]], Len(cs))

\* charges[i].x = state0[i].x + h * kn[i].x, and y, vx, vy likewise
StageCharge(c, s, h, kn) ==
    IF c.pinned THEN c
    ELSE [c EXCEPT !.x = Add(s.x, Mul(h, kn.x)), !.y = Add(s.y, Mul(h, kn.y)),
                   !.vx = Add(s.vx, Mul(h, kn.vx)), !.vy = Add(s.vy, Mul(h, kn.vy))]
StageState(cs, state0, h, kn) ==
    ForEach([i \in 1..Len(cs) |-> StageCharge(cs[i], state0[i], h, kn[i])], Len(cs))

\* the factor of kn in the state of stage n + 1: 0.5 * dt for k2 and k3, dt for k4
StageFactor(n, dt) == IF n < 3 THEN Mul(Lit(1, 2), dt) ELSE dt

\* The four stages.  ks holds the derivatives recorded so far; stage
\* Len(ks) + 1 calls computeAccelerations on cs, records kn, and unless it was
\* k4 sets the charges to the state of the next stage.
RECURSIVE Evaluate(_, _, _, _, _, _)
Staged(c, ks, state0, ms, dt, o) ==
    IF Len(ks) = 4 THEN [charges |-> c, ks |-> ks]
    ELSE Evaluate(StageState(c, state0, StageFactor(Len(ks), dt), ks[Len(ks)]),
                  ks, state0, ms, dt, o)
Recorded(c, ks, state0, ms, dt, o) == Staged(c, Append(ks, Derivative(c)), state0, ms, dt, o)
Evaluate(cs, ks, state0, ms, dt, o) ==
    Recorded(computeAccelerations(cs, ms, o), ks, state0, ms, dt, o)

\* (k1 + 2*k2 + 2*k3 + k4) / 6
Weighted(a, b, c, d) ==
    Div(Add(Add(Add(a, Mul(Lit(2, 1), b)), Mul(Lit(2, 1), c)), d), Lit(6, 1))

\* the slip of a first-order combination: k1 alone in the place of the average
CombineFirstOrder(c, s, dt, damping, k1, k2, k3, k4) ==
    IF c.pinned THEN c
    ELSE [c EXCEPT
            !.x = Add(s.x, Mul(dt, k1.x)),
            !.y = Add(s.y, Mul(dt, k1.y)),
            !.vx = Mul(Add(s.vx, Mul(dt, k1.vx)), damping),
            !.vy = Mul(Add(s.vy, Mul(dt, k1.vy)), damping)]

\* the slip of a damping that also multiplies the position
CombineDampingAll(c, s, dt, damping, k1, k2, k3, k4) ==
    IF c.pinned THEN c
    ELSE [c EXCEPT
            !.x = Mul(Add(s.x, Mul(dt, Weighted(k1.x, k2.x, k3.x, k4.x))), damping),
            !.y = Mul(Add(s.y, Mul(dt, Weighted(k1.y, k2.y, k3.y, k4.y))), damping),
            !.vx = Mul(Add(s.vx, Mul(dt, Weighted(k1.vx, k2.vx, k3.vx, k4.vx))), damping),
            !.vy = Mul(Add(s.vy, Mul(dt, Weighted(k1.vy, k2.vy, k3.vy, k4.vy))), damping)]

\* the body of the loop "Combine"
CombineCharge(c, s, dt, damping, k1, k2, k3, k4) ==
    IF c.pinned THEN c
    ELSE [c EXCEPT
            !.x = Add(s.x, Mul(dt, Weighted(k1.x, k2.x, k3.x, k4.x))),
            !.y = Add(s.y, Mul(dt, Weighted(k1.y, k2.y, k3.y, k4.y))),
            !.vx = Mul(Add(s.vx, Mul(dt, Weighted(k1.vx, k2.vx, k3.vx, k4.vx))), damping),
            !.vy = Mul(Add(s.vy, Mul(dt, Weighted(k1.vy, k2.vy, k3.vy, k4.vy))), damping)]
Combine(cs, state0, dt, damping, ks) ==
    ForEach([i \in 1..Len(cs) |->
                CombineCharge(cs[i], state0[i], dt, damping,
                              ks[1][i], ks[2][i], ks[3][i], ks[4][i])], Len(cs))

\* the charges after the call, with the local constants state0, k1 .. k4
RK4Of(r, state0, dt, damping) ==
    [state0 |-> state0, k1 |-> r.ks[1], k2 |-> r.ks[2], k3 |-> r.ks[3], k4 |-> r.ks[4],
     charges |-> Combine(r.charges, state0, dt, damping, r.ks)]
stepPhysicsRK4(cs, ms, dt, o) ==
    RK4Of(Evaluate(cs, <<>>, Snapshot(cs), ms, dt, o), Snapshot(cs), dt,
          OrDefault(o.damping, One))

----------------------------------------------------------------------------
\* stepPhysicsUsingFields

\* "compute E at c from all OTHER charges": the loop over j, skipping i
RECURSIVE OthersLoop(_, _, _, _, _, _)
OthersLoop(E, j, i, cs, k, soft) ==
    IF j > Len(cs) THEN E
    ELSE OthersLoop(IF j = i THEN E ELSE ElectricTerm(E, cs[i].x, cs[i].y, cs[j], k, soft),
                    j + 1, i, cs, k, soft)

\* fx = c.q * Ex; fy = c.q * Ey; c.ax = fx / c.m; c.ay = fy / c.m
FieldAccel(c, E) == [c EXCEPT !.ax = Div(Mul(c.q, E.Ex), c.m), !.ay = Div(Mul(c.q, E.Ey), c.m)]
FieldAcceleration(i, cs, k, soft) ==
    FieldAccel(cs[i], OthersLoop([Ex |-> Zero, Ey |-> Zero], 1, i, cs, k, soft))
FieldAccelerations(cs, k, soft) ==
    ForEach([i \in 1..Len(cs) |-> FieldAcceleration(i, cs, k, soft)], Len(cs))

stepPhysicsUsingFields(cs, dt, o) ==
    Integrate(FieldAccelerations(cs, OrDefault(o.k, One), OrDefault(o.softening, Lit(1, 10))),
              dt, OrDefault(o.damping, One))

----------------------------------------------------------------------------
\* The state: the charges and magnets arrays, the options object the kernel
\* is called with, and a record of the calls (start: the charges before the
\* first call; pre: the charges before the last call; last: the function
\* last called and its dt; stages: the local constants of stepPhysicsRK4;
\* probe: the point of the last field query and the value it returned).
\* The page adds dragging, draggingType and useRK4, and a record of the mouse
\* (mouse: the position of the last mousedown or mousemove; grip: where the
\* drag target was when it was picked or last moved, whether a mousemove has
\* moved it since the pick, and the number of frames before the pick;
\* events: the number of input events so far).

\* addCharge: a charge has no ax, ay until computeAccelerations writes them
Charge(x, y, vx, vy, q, m, pinned) ==
    [x |-> x, y |-> y, vx |-> vx, vy |-> vy, ax |-> Missing, ay |-> Missing,
     q |-> q, m |-> m, pinned |-> pinned]

\* addMagnet
Magnet(x, y, strength) ==
    [x |-> x, y |-> y, strength |-> strength, angle |-> Zero, pinned |-> FALSE]

NoStages == [state0 |-> <<>>, k1 |-> <<>>, k2 |-> <<>>, k3 |-> <<>>, k4 |-> <<>>]
NoProbe == [x |-> Zero, y |-> Zero, value |-> <<>>]
NoCall == [op |-> "none", dt |-> Zero]
\* let dragging = null; let draggingType = null; let useRK4 = false
Null == <<"null", 0>>

\* options = {}
NoOptions == [k |-> Missing, softening |-> Missing, damping |-> Missing, maxAccel |-> Missing]
\* the options of the animation loop
simOptions ==
    [k |-> Lit(10000, 1), softening |-> Lit(4, 10), damping |-> Lit(999, 1000),
     maxAccel |-> Lit(2000, 1)]
\* further options a caller may pass: a clamp that binds, and no clamp
HalfDamped ==
    [k |-> Lit(1, 1), softening |-> Lit(1, 1), damping |-> Lit(1, 2), maxAccel |-> Lit(1, 64)]
Unsoftened == [k |-> Lit(1, 1), softening |-> Zero, damping |-> Lit(1, 1), maxAccel |-> Infinity]
Tight == [k |-> Lit(1, 1), softening |-> Zero, damping |-> Lit(1, 2), maxAccel |-> Lit(1, 2)]
OptionChoices == {NoOptions, simOptions, HalfDamped}

AtRest == <<Zero, Zero>>
Moving == <<Lit(7, 1), Lit(-1, 1)>>
Origin == <<Zero, Zero>>
Away == <<Lit(3, 1), Lit(4, 1)>>
At(pos, v, q, m, pinned) == Charge(pos[1], pos[2], v[1], v[2], q, m, pinned)

\* a second charge at pos: of the charge of the first or the opposite one,
\* of the mass of the first or twice as heavy, free or pinned
Seconds(pos, v) ==
    {At(pos, v, qm[1], qm[2], pinned) :
        qm \in {<<Lit(1, 1), Lit(1, 1)>>, <<Lit(-1, 1), Lit(1, 1)>>, <<Lit(1, 1), Lit(2, 1)>>},
        pinned \in BOOLEAN}
Pairs(first, second) == {<<a, b>> : a \in first, b \in second}

\* a first charge at the origin, free or pinned, alone or with a second
\* one, at most one of the two pinned
First(pinned) == At(Origin, Moving, Lit(1, 1), Lit(1, 1), pinned)
Second(qm, pinned) == At(Away, Moving, qm[1], qm[2], pinned)
Opposed == <<Lit(-1, 1), Lit(1, 1)>>
Heavy == <<Lit(1, 1), Lit(2, 1)>>
StartCharges ==
    {<<First(FALSE)>>, <<First(TRUE)>>,
     <<First(FALSE), Second(Opposed, FALSE)>>, <<First(FALSE), Second(Heavy, FALSE)>>,
     <<First(FALSE), Second(Opposed, TRUE)>>, <<First(TRUE), Second(Heavy, FALSE)>>}
StartMagnets == {<<>>, <<Magnet(Lit(-2, 1), Lit(1, 1), Lit(8, 1))>>}
DtChoices == {Lit(1, 1), Lit(1, 2)}

\* what no call has changed yet
Fresh ==
    /\ start = charges
    /\ pre = charges
    /\ last = NoCall
    /\ stages = NoStages
    /\ probe = NoProbe
    /\ steps = 0
    /\ dragging = Null
    /\ draggingType = "null"
    /\ useRK4 = FALSE
    /\ mouse = <<Zero, Zero>>
    /\ grip = [x |-> Zero, y |-> Zero, moved |-> FALSE, since |-> 0]
    /\ events = 0

Init ==
    /\ prec = Precision
    /\ options \in OptionChoices
    /\ charges \in StartCharges
    /\ magnets \in StartMagnets
    /\ Fresh

\* Start states of SpecIdeal (prec = 0).  All distances, field magnitudes and
\* speeds have rational square roots: the charges lie on the x axis, or at the
\* origin and (3, 4), the magnet lies on the x axis, velocities are (3, 4) or
\* zero, and the softening is 0, or the default 0.1 with the charges 0.24 apart.
Cruising == <<Lit(3, 1), Lit(4, 1)>>
OnAxis(x) == <<Lit(x, 1), Zero>>
Near == <<Lit(6, 25), Zero>>
IdealFirst == {At(Origin, v, Lit(1, 1), Lit(1, 1), FALSE) : v \in {AtRest, Cruising}}
Triple ==
    <<At(Origin, AtRest, Lit(1, 1), Lit(1, 1), FALSE),
      At(OnAxis(1), Cruising, Lit(1, 1), Lit(1, 1), FALSE),
      At(OnAxis(2), AtRest, Lit(1, 1), Lit(2, 1), FALSE)>>
AxisCharges ==
    {<<a>> : a \in IdealFirst} \cup Pairs(IdealFirst, Seconds(OnAxis(10), Cruising))
        \cup {Triple}
AxisMagnets == {<<>>, <<Magnet(Lit(-2, 1), Zero, Lit(8, 1))>>}
NearMagnets == {<<>>, <<Magnet(Lit(-6, 25), Zero, Lit(8, 1))>>}

InitIdeal ==
    /\ prec = 0
    /\ \/ /\ options \in {Unsoftened, Tight}
          /\ \/ charges \in AxisCharges /\ magnets \in AxisMagnets
             \/ charges \in Pairs(IdealFirst, Seconds(Away, Cruising)) /\ magnets = <<>>
       \/ /\ options = NoOptions
          /\ \/ charges \in {<<a>> : a \in IdealFirst} /\ magnets \in NearMagnets
             \/ charges \in Pairs(IdealFirst, Seconds(Near, Cruising)) /\ magnets = <<>>
    /\ Fresh

\* the points of the field queries; under SpecIdeal, on the x axis
ProbePoints ==
    IF prec # 0 THEN {<<Lit(1, 1), Lit(1, 1)>>}
    ELSE IF options = NoOptions THEN {Origin}
    ELSE {OnAxis(3)}

\* SpecIdeal makes one call per behaviour
StepBound == IF prec = 0 THEN 1 ELSE MaxSteps

\* what every call records
Called(op, dt) ==
    /\ pre' = charges
    /\ last' = [op |-> op, dt |-> dt]
    /\ steps' = steps + 1
    /\ UNCHANGED <<prec, options, magnets, start>>
    /\ UNCHANGED <<dragging, draggingType, useRK4, mouse, grip, events>>

CallElectricFieldAt ==
    /\ steps < StepBound
    /\ \E p \in ProbePoints :
          /\ ~Singular(Append(charges, At(p, AtRest, One, One, FALSE)), <<>>, options)
          /\ probe' = [x |-> p[1], y |-> p[2],
                       value |-> electricFieldAt(p[1], p[2], charges, options)]
    /\ Called("electricFieldAt", Zero)
    /\ UNCHANGED <<charges, stages>>

CallTotalMagneticFieldAt ==
    /\ steps < StepBound
    /\ \E p \in ProbePoints :
          /\ ~Singular(<<At(p, AtRest, One, One, FALSE)>>, magnets, options)
          /\ probe' = [x |-> p[1], y |-> p[2],
                       value |-> totalMagneticFieldAt(p[1], p[2], magnets, options)]
    /\ Called("totalMagneticFieldAt", Zero)
    /\ UNCHANGED <<charges, stages>>

CallComputeAccelerations ==
    /\ steps < StepBound
    /\ ~Singular(charges, magnets, options)
    /\ charges' = computeAccelerations(charges, magnets, options)
    /\ Called("computeAccelerations", Zero)
    /\ UNCHANGED <<stages, probe>>

CallStepPhysics ==
    /\ steps < StepBound
    /\ ~Singular(charges, magnets, options)
    /\ \E dt \in DtChoices :
          /\ charges' = stepPhysics(charges, magnets, dt, options)
          /\ Called("stepPhysics", dt)
    /\ UNCHANGED <<stages, probe>>

\* with softening 0 a stage may bring two charges to one point, so the call
\* is taken with a nonzero softening
CallStepPhysicsRK4 ==
    /\ steps < StepBound
    /\ ~IsZero(OrDefault(options.softening, Lit(1, 10)))
    /\ \E dt \in DtChoices :
          \E r \in {stepPhysicsRK4(charges, magnets, dt, options)} :
             /\ charges' = r.charges
             /\ stages' = [state0 |-> r.state0, k1 |-> r.k1, k2 |-> r.k2,
                           k3 |-> r.k3, k4 |-> r.k4]
             /\ Called("stepPhysicsRK4", dt)
    /\ UNCHANGED probe

CallStepPhysicsUsingFields ==
    /\ steps < StepBound
    /\ ~Singular(charges, <<>>, options)
    /\ \E dt \in DtChoices :
          /\ charges' = stepPhysicsUsingFields(charges, dt, options)
          /\ Called("stepPhysicsUsingFields", dt)
    /\ UNCHANGED <<stages, probe>>

\* Spec: the field queries and the calls of the animation loop, in floating
\* point.
Next ==
    \/ CallElectricFieldAt
    \/ CallTotalMagneticFieldAt
    \/ CallComputeAccelerations
    \/ CallStepPhysics
    \/ CallStepPhysicsRK4

Spec == Init /\ [][Next]_vars

\* SpecIdeal: one call in exact arithmetic, stepPhysicsUsingFields (which the
\* program never calls) among them.  The stage states of stepPhysicsRK4 lie at
\* distances with irrational roots, so the RK4 step is left to Spec.
NextIdeal ==
    \/ CallElectricFieldAt
    \/ CallTotalMagneticFieldAt
    \/ CallComputeAccelerations
    \/ CallStepPhysics
    \/ CallStepPhysicsUsingFields

SpecIdeal == InitIdeal /\ [][NextIdeal]_vars

----------------------------------------------------------------------------
\* Properties.  After(op): the last call was op, from the charges pre.

After(op) == last.op = op
Kinematics(c) == <<c.x, c.y, c.vx, c.vy>>
Damping == OrDefault(options.damping, One)
MaxAccel == OrDefault(options.maxAccel, Lit(2000, 1))

\* the clamp does not bind: no increment of a pair of cs is changed by it
ClampFree(cs, o) ==
    \A i, j \in 1..Len(cs) :
        i < j =>
            PairIncrements(cs[i], cs[j], OrDefault(o.k, One), OrDefault(o.softening, Lit(1, 10)),
                           OrDefault(o.maxAccel, Lit(2000, 1)))
            = PairIncrements(cs[i], cs[j], OrDefault(o.k, One),
                             OrDefault(o.softening, Lit(1, 10)), Infinity)

\* x*x + y*y, and |(x, y)| <= bound for a finite bound >= 0
SquaredNorm(x, y) == Add(Mul(x, x), Mul(y, y))
Within(x, y, bound) == Le(SquaredNorm(x, y), Mul(bound, bound))

\* C1: a pinned charge has, after any sequence of kernel calls (stepPhysics
\* and stepPhysicsRK4 among them, in any order), the x, y, vx and vy it had
\* before the first call.
PinnedChargesKeepState ==
    \A i \in 1..Len(charges) :
        charges[i].pinned => Kinematics(charges[i]) = Kinematics(start[i])

\* a pinned charge (with a velocity) after stepPhysics and then stepPhysicsRK4,
\* next to a charge the two calls have moved
PinnedThroughBothSteps ==
    /\ steps = MaxSteps
    /\ After("stepPhysicsRK4")
    /\ \E dt \in DtChoices : pre = stepPhysics(start, magnets, dt, options)
    /\ \E i, j \in 1..Len(charges) :
          /\ charges[i].pinned /\ charges[i].vx # Zero
          /\ Kinematics(charges[j]) # Kinematics(start[j])

\* a single free charge, no magnets, damping = 1
FreeFlight ==
    /\ Len(pre) = 1 /\ ~pre[1].pinned
    /\ magnets = <<>>
    /\ Damping = One
\* the velocity of p kept and the position advanced by exactly v * dt
Straight(c, p, dt) ==
    /\ c.vx = p.vx /\ c.vy = p.vy
    /\ c.x = Add(p.x, Mul(p.vx, dt))
    /\ c.y = Add(p.y, Mul(p.vy, dt))
\* (v + 2*v + 2*v + v) / 6 as the program evaluates it
SixthOfSix(v) == Div(Add(Add(Add(v, Mul(Lit(2, 1), v)), Mul(Lit(2, 1), v)), v), Lit(6, 1))

\* C2 as stated: in free flight stepPhysics and stepPhysicsRK4 each keep the
\* velocity and set the position to exactly (x + vx*dt, y + vy*dt).
FreeFlightIsStraight ==
    FreeFlight /\ (After("stepPhysics") \/ After("stepPhysicsRK4"))
        => Straight(charges[1], pre[1], last.dt)

\* C2, amended: in free flight both calls keep the velocity; stepPhysics
\* sets the position to exactly (x + vx*dt, y + vy*dt), and stepPhysicsRK4 sets
\* it to (x + dt*((vx + 2*vx + 2*vx + vx)/6), y + dt*((vy + 2*vy + 2*vy + vy)/6))
\* as evaluated in floating point, which is x + v*dt up to rounding only.
FreeFlightUpToRounding ==
    FreeFlight =>
        /\ After("stepPhysics") => Straight(charges[1], pre[1], last.dt)
        /\ After("stepPhysicsRK4") =>
              /\ charges[1].vx = pre[1].vx /\ charges[1].vy = pre[1].vy
              /\ charges[1].x = Add(pre[1].x, Mul(last.dt, SixthOfSix(pre[1].vx)))
              /\ charges[1].y = Add(pre[1].y, Mul(last.dt, SixthOfSix(pre[1].vy)))

\* a free flight through stepPhysicsRK4 with dt = 1/2
FreeFlightTaken ==
    /\ FreeFlight
    /\ After("stepPhysicsRK4")
    /\ last.dt = Lit(1, 2)
    /\ charges[1].x # pre[1].x

\* the scenario of C3: a free unit charge at rest at (0, 0), a pinned unit
\* charge at (10, 0), k = 1, softening = 0, no clamp, damping = 1, dt = 1
TenApart ==
    /\ After("stepPhysics") /\ last.dt = One
    /\ magnets = <<>>
    /\ options = [k |-> One, softening |-> Zero, damping |-> One, maxAccel |-> Infinity]
    /\ Len(pre) = 2
    /\ Kinematics(pre[1]) = <<Zero, Zero, Zero, Zero>>
    /\ pre[1].q = One /\ pre[1].m = One /\ ~pre[1].pinned
    /\ pre[2].x = Lit(10, 1) /\ pre[2].y = Zero
    /\ pre[2].q = One /\ pre[2].m = One /\ pre[2].pinned

\* C3: in that scenario one stepPhysics call leaves the free charge with
\* acceleration (-1/100, 0), velocity (-1/100, 0) and position (-1/100, 0), and
\* the pinned charge at (10, 0) with its velocity unchanged.
TenApartStep ==
    TenApart =>
        /\ charges[1].ax = Lit(-1, 100) /\ charges[1].ay = Zero
        /\ charges[1].vx = Lit(-1, 100) /\ charges[1].vy = Zero
        /\ charges[1].x = Lit(-1, 100) /\ charges[1].y = Zero
        /\ Kinematics(charges[2]) = <<Lit(10, 1), Zero, pre[2].vx, pre[2].vy>>

\* the scenario after the step, the pinned charge having a velocity
TenApartStepped == TenApart /\ charges[1].x # Zero /\ charges[2].vx # Zero

\* two charges of equal charge magnitude, no magnets, the clamp not binding
TwoBody ==
    /\ After("computeAccelerations")
    /\ Len(pre) = 2
    /\ magnets = <<>>
    /\ Abs(pre[1].q) = Abs(pre[2].q)
    /\ ClampFree(pre, options)
Opposite == charges[1].ax = Neg(charges[2].ax) /\ charges[1].ay = Neg(charges[2].ay)

\* C4 as stated: the accelerations of the two charges are opposite, a_1 = -a_2
\* in both components, for all positions and all positive masses.
OppositeAccelerations == TwoBody => Opposite

\* C4, amended: the accelerations of the two charges are opposite, a_1 = -a_2
\* in both components, for all positions and all equal positive masses (for
\* different masses it is the forces m_1 * a_1 and m_2 * a_2 that are opposite).
OppositeAccelerationsOfEqualMasses == TwoBody /\ pre[1].m = pre[2].m => Opposite

\* two charges of equal mass with accelerations that are not zero
EqualMassesAccelerated == TwoBody /\ pre[1].m = pre[2].m /\ charges[1].ax # Zero

\* the charges of cs other than the i-th
Others(cs, i) == SubSeq(cs, 1, i - 1) \o SubSeq(cs, i + 1, Len(cs))
\* electricFieldAt at the i-th charge over the others, with the options of the call
FieldOn(i) == electricFieldAt(pre[i].x, pre[i].y, Others(pre, i), options)

NoMagnetsNoField ==
    magnets = <<>> =>
        /\ After("totalMagneticFieldAt") => probe.value = [Bx |-> Zero, By |-> Zero]
        /\ After("computeAccelerations") => charges = Electrostatic(pre, options)

\* a query of the magnetic field with no magnets, after a step with two
\* moving charges
QueriedWithoutMagnets ==
    /\ magnets = <<>>
    /\ After("totalMagneticFieldAt")
    /\ steps = MaxSteps
    /\ Len(charges) = 2
    /\ charges # start

\* the increments of the pair i < j of pre
IncrementsOf(i, j) ==
    PairIncrements(pre[i], pre[j], OrDefault(options.k, One),
                   OrDefault(options.softening, Lit(1, 10)), MaxAccel)

FieldMagnitudeAt(i) ==
    Hypot(totalMagneticFieldAt(pre[i].x, pre[i].y, magnets, options).Bx,
          totalMagneticFieldAt(pre[i].x, pre[i].y, magnets, options).By)
MagneticPart(i) ==
    <<Sub(charges[i].ax, Electrostatic(pre, options)[i].ax),
      Sub(charges[i].ay, Electrostatic(pre, options)[i].ay)>>

Accelerations(cs) == ForEach([i \in 1..Len(cs) |-> <<cs[i].ax, cs[i].ay>>], Len(cs))

\* C9: after stepPhysics every free charge has, with a the acceleration
\* computed from the state before the call, v' = damping * (v + a*dt) and
\* x' = x + v'*dt, the position advanced with the new, damped velocity.
SemiImplicitEuler ==
    After("stepPhysics") =>
        /\ Accelerations(charges) = Accelerations(computeAccelerations(pre, magnets, options))
        /\ \A i \in 1..Len(pre) :
           ~pre[i].pinned =>
              /\ charges[i].vx = Mul(Damping, Add(pre[i].vx, Mul(charges[i].ax, last.dt)))
              /\ charges[i].vy = Mul(Damping, Add(pre[i].vy, Mul(charges[i].ay, last.dt)))
              /\ charges[i].x = Add(pre[i].x, Mul(charges[i].vx, last.dt))
              /\ charges[i].y = Add(pre[i].y, Mul(charges[i].vy, last.dt))

\* a damped step of an accelerated free charge that an advance with the old
\* velocity would have put elsewhere
DampedStepTaken ==
    /\ After("stepPhysics")
    /\ Damping # One
    /\ \E i \in 1..Len(pre) :
          /\ ~pre[i].pinned
          /\ charges[i].ax # Zero
          /\ charges[i].x # Add(pre[i].x, Mul(pre[i].vx, last.dt))

\* (k1 + 2*k2 + 2*k3 + k4) / 6 as the program evaluates it
SixthOf(a, b, c, d) ==
    Div(Add(Add(Add(a, Mul(Lit(2, 1), b)), Mul(Lit(2, 1), c)), d), Lit(6, 1))
\* the positions of cs, and the charges stepPhysicsRK4 gives from pre with damping = 1
Positions(cs) == ForEach([i \in 1..Len(cs) |-> <<cs[i].x, cs[i].y>>], Len(cs))
Velocities(cs) == ForEach([i \in 1..Len(cs) |-> <<cs[i].vx, cs[i].vy>>], Len(cs))
Undamped ==
    stepPhysicsRK4(pre, magnets, last.dt, [options EXCEPT !.damping = One]).charges

\* C10: after stepPhysicsRK4 every free charge has the position
\* state0.x + dt * ((k1.x + 2*k2.x + 2*k3.x + k4.x) / 6), which is the one the
\* call gives with damping = 1; the velocities of the stage states of k2, k3
\* and k4 (kept in k2.x, k3.x, k4.x) are state0.v + h * k.v with no damping;
\* and the velocity is damping * (state0.v + dt * ((k1.v + 2*k2.v + 2*k3.v + k4.v) / 6)).
DampingOnceOnVelocity ==
    After("stepPhysicsRK4") =>
        /\ stages.state0 = Snapshot(pre)
        /\ Positions(charges) = Positions(Undamped)
        /\ \A i \in 1..Len(pre) :
              ~pre[i].pinned =>
                 /\ charges[i].x =
                       Add(pre[i].x, Mul(last.dt, SixthOf(stages.k1[i].x, stages.k2[i].x,
                                                          stages.k3[i].x, stages.k4[i].x)))
                 /\ charges[i].y =
                       Add(pre[i].y, Mul(last.dt, SixthOf(stages.k1[i].y, stages.k2[i].y,
                                                          stages.k3[i].y, stages.k4[i].y)))
                 /\ stages.k1[i].x = pre[i].vx /\ stages.k1[i].y = pre[i].vy
                 /\ stages.k2[i].x = Add(pre[i].vx, Mul(Mul(Lit(1, 2), last.dt), stages.k1[i].vx))
                 /\ stages.k2[i].y = Add(pre[i].vy, Mul(Mul(Lit(1, 2), last.dt), stages.k1[i].vy))
                 /\ stages.k3[i].x = Add(pre[i].vx, Mul(Mul(Lit(1, 2), last.dt), stages.k2[i].vx))
                 /\ stages.k3[i].y = Add(pre[i].vy, Mul(Mul(Lit(1, 2), last.dt), stages.k2[i].vy))
                 /\ stages.k4[i].x = Add(pre[i].vx, Mul(last.dt, stages.k3[i].vx))
                 /\ stages.k4[i].y = Add(pre[i].vy, Mul(last.dt, stages.k3[i].vy))
                 /\ charges[i].vx =
                       Mul(Damping, Add(pre[i].vx,
                                        Mul(last.dt, SixthOf(stages.k1[i].vx, stages.k2[i].vx,
                                                             stages.k3[i].vx, stages.k4[i].vx))))
                 /\ charges[i].vy =
                       Mul(Damping, Add(pre[i].vy,
                                        Mul(last.dt, SixthOf(stages.k1[i].vy, stages.k2[i].vy,
                                                             stages.k3[i].vy, stages.k4[i].vy))))

\* a damped RK4 step of an accelerated free charge
DampedRK4Taken ==
    /\ After("stepPhysicsRK4")
    /\ Damping # One
    /\ Velocities(charges) # Velocities(Undamped)
    /\ \E i \in 1..Len(pre) : ~pre[i].pinned /\ stages.k1[i].vx # Zero

----------------------------------------------------------------------------
\* c with the ax, ay of d: equal to d exactly when c and d have the same
\* fields and differ in ax, ay at most
WithAccelerationsOf(c, d) == [c EXCEPT !.ax = d.ax, !.ay = d.ay]
\* cs with other values left in ax, ay
Disturbed(cs) ==
    ForEach([i \in 1..Len(cs) |-> [cs[i] EXCEPT !.ax = Lit(5, 1), !.ay = Lit(-3, 1)]], Len(cs))
\* the step is a call of computeAccelerations
ComputeAccelerationsCalled == steps' = steps + 1 /\ last'.op = "computeAccelerations"

\* C11: a call of computeAccelerations leaves the magnets and, of every
\* charge (pinned or not), every field but ax, ay as they were; the ax, ay it
\* writes are those it writes when other values were left in ax, ay before
\* the call; and a second call on the state it leaves gives the same charges.
AccelerationsOverwritten ==
    [][ComputeAccelerationsCalled =>
          /\ magnets' = magnets
          /\ Len(charges') = Len(charges)
          /\ \A i \in 1..Len(charges) : WithAccelerationsOf(charges'[i], charges[i]) = charges[i]
          /\ Accelerations(charges')
                = Accelerations(computeAccelerations(Disturbed(charges), magnets, options))
          /\ computeAccelerations(charges', magnets', options') = charges']_vars

\* computeAccelerations called, with a magnet, on charges that carry the
\* ax, ay of an earlier call, and giving a pinned charge a new acceleration
AccelerationsRewritten ==
    /\ After("computeAccelerations")
    /\ steps > 1
    /\ magnets # <<>>
    /\ \E i \in 1..Len(pre) :
          /\ pre[i].pinned
          /\ pre[i].ax \notin {Missing, Zero}
          /\ charges[i].ax \notin {pre[i].ax, Zero}
          /\ WithAccelerationsOf(charges[i], pre[i]) = pre[i]

----------------------------------------------------------------------------
\* The page: the mouse handlers of the canvas, the integrator buttons and the
\* animation loop (SpecDrag).  dragging refers to an element of charges or of
\* magnets: <<"charge", i>> or <<"magnet", i>>.  The add and delete buttons
\* are not part of SpecDrag, so an index refers to one object throughout.

\* Bounds on the number of input events and of animation frames of a
\* behaviour of SpecDrag.
MaxEvents == 3
MaxFrames == 1

\* canvas.getBoundingClientRect() of the 800 x 600 canvas
CanvasRect ==
    [left |-> Lit(8, 1), top |-> Lit(8, 1), width |-> Lit(800, 1), height |-> Lit(600, 1)]
\* evt is <<clientX, clientY>>
getMousePos(evt, r) ==
    <<Mul(Sub(evt[1], r.left), Div(Lit(800, 1), r.width)),
      Mul(Sub(evt[2], r.top), Div(Lit(600, 1), r.height))>>

\* Math.max, Math.min
MaxOf(a, b) == IF Lt(a, b) THEN b ELSE a
MinOf(a, b) == IF Lt(b, a) THEN b ELSE a
\* c._r ?? Math.max(6, Math.min(20, Math.abs(c.q) * 4)): no charge has _r
Radius(c) == MaxOf(Lit(6, 1), MinOf(Lit(20, 1), Mul(Abs(c.q), Lit(4, 1))))
\* (e.x - pos.x)**2 + (e.y - pos.y)**2
Dist2(e, pos) ==
    Add(Mul(Sub(e.x, pos[1]), Sub(e.x, pos[1])), Mul(Sub(e.y, pos[2]), Sub(e.y, pos[2])))
\* if (d2 < reach**2 && d2 < bestDist) { best = e; bestDist = d2; ... }
Nearer(b, ref, d2, reach, type) ==
    IF Lt(d2, Mul(reach, reach)) /\ (b.bestDist = Infinity \/ Lt(d2, b.bestDist))
    THEN [best |-> ref, bestDist |-> d2, draggingType |-> type]
    ELSE b
\* for (const c of charges): reach r + 6
RECURSIVE PickCharge(_, _, _, _)
PickCharge(b, n, cs, pos) ==
    IF n > Len(cs) THEN b
    ELSE PickCharge(Nearer(b, <<"charge", n>>, Dist2(cs[n], pos),
                           Add(Radius(cs[n]), Lit(6, 1)), b.draggingType),
                    n + 1, cs, pos)
\* for (const m of magnets): reach Math.max(w, h)/2 + 6, and draggingType = 'magnet'
RECURSIVE PickMagnet(_, _, _, _)
PickMagnet(b, n, ms, pos) ==
    IF n > Len(ms) THEN b
    ELSE PickMagnet(Nearer(b, <<"magnet", n>>, Dist2(ms[n], pos),
                           Add(Div(MaxOf(Lit(40, 1), Lit(20, 1)), Lit(2, 1)), Lit(6, 1)),
                           "magnet"),
                    n + 1, ms, pos)

\* the object ref refers to, and the assignment of e to it
Target(ref) == IF ref[1] = "charge" THEN charges[ref[2]] ELSE magnets[ref[2]]
Writes(ref, e) ==
    /\ charges' = IF ref[1] = "charge" THEN [charges EXCEPT ![ref[2]] = e] ELSE charges
    /\ magnets' = IF ref[1] = "magnet" THEN [magnets EXCEPT ![ref[2]] = e] ELSE magnets
\* a pick that pins and leaves the velocity
HeldMoving(e) == [e EXCEPT !.pinned = TRUE]
\* dragging.pinned = true; dragging.vx = dragging.vy = 0 (a magnet gets vx, vy here)
Held(e) ==
    [f \in DOMAIN e \cup {"vx", "vy"} |->
        IF f = "pinned" THEN TRUE ELSE IF f \in {"vx", "vy"} THEN Zero ELSE e[f]]

\* what every input event records
Input(op) ==
    /\ events < MaxEvents
    /\ events' = events + 1
    /\ last' = [op |-> op, dt |-> Zero]
    /\ pre' = charges
    /\ UNCHANGED <<prec, options, start, stages, probe, steps>>

\* the client positions of the mouse events: near the first charge, near the
\* second, near the magnet, and away from all three
ClientPoints ==
    {<<Lit(20, 1), Lit(16, 1)>>, <<Lit(48, 1), Lit(20, 1)>>, <<Lit(16, 1), Lit(52, 1)>>,
     <<Lit(208, 1), Lit(208, 1)>>}

\* canvas.addEventListener('mousedown', ...): let best = null,
\* bestDist = Infinity; the two loops; if (best) { ... }
mousedown ==
    /\ \E evt \in ClientPoints :
          \E pos \in {getMousePos(evt, CanvasRect)} :
             \E b \in {PickMagnet(PickCharge([best |-> Null, bestDist |-> Infinity,
                                               draggingType |-> draggingType],
                                              1, charges, pos),
                                   1, magnets, pos)} :
                /\ mouse' = pos
                /\ draggingType' = b.draggingType
                /\ IF b.best # Null
                   THEN /\ dragging' = b.best
                        /\ Writes(b.best, Held(Target(b.best)))
                        /\ grip' = [x |-> Target(b.best).x, y |-> Target(b.best).y,
                                    moved |-> FALSE, since |-> steps]
                   ELSE UNCHANGED <<dragging, charges, magnets, grip>>
    /\ Input("mousedown")
    /\ UNCHANGED useRK4

\* canvas.addEventListener('mousemove', ...): the mouse moves to the second
\* charge or away from everything
mousemove ==
    /\ \E evt \in {<<Lit(48, 1), Lit(20, 1)>>, <<Lit(208, 1), Lit(208, 1)>>} :
          \E pos \in {getMousePos(evt, CanvasRect)} :
             /\ mouse' = pos
             /\ IF dragging # Null
                THEN /\ Writes(dragging, [Target(dragging) EXCEPT !.x = pos[1], !.y = pos[2]])
                     /\ grip' = [grip EXCEPT !.x = pos[1], !.y = pos[2], !.moved = TRUE]
                ELSE UNCHANGED <<charges, magnets, grip>>
    /\ Input("mousemove")
    /\ UNCHANGED <<dragging, draggingType, useRK4>>

\* canvas.addEventListener('mouseup', ...): if (dragging)
\* dragging.pinned = false; dragging = null; draggingType = null
mouseup ==
    /\ Input("mouseup")
    /\ IF dragging # Null
       THEN Writes(dragging, [Target(dragging) EXCEPT !.pinned = FALSE])
       ELSE UNCHANGED <<charges, magnets>>
    /\ dragging' = Null
    /\ draggingType' = "null"
    /\ UNCHANGED <<useRK4, mouse, grip>>
\* canvas.addEventListener('mouseleave', ...): the same statements
mouseleave ==
    /\ Input("mouseleave")
    /\ IF dragging # Null
       THEN Writes(dragging, [Target(dragging) EXCEPT !.pinned = FALSE])
       ELSE UNCHANGED <<charges, magnets>>
    /\ dragging' = Null
    /\ draggingType' = "null"
    /\ UNCHANGED <<useRK4, mouse, grip>>

\* eulerBtn.addEventListener('click', ...)
eulerBtn ==
    /\ Input("eulerBtn")
    /\ useRK4' = FALSE
    /\ UNCHANGED <<charges, magnets, dragging, draggingType, mouse, grip>>
\* rk4Btn.addEventListener('click', ...)
rk4Btn ==
    /\ Input("rk4Btn")
    /\ useRK4' = TRUE
    /\ UNCHANGED <<charges, magnets, dragging, draggingType, mouse, grip>>

\* dt = Math.min(0.03, (now - last) / 1000), with ms = now - last
FrameDt(ms) == MinOf(Lit(3, 100), Div(ms, Lit(1000, 1)))

\* function loop(now): one animation frame, 16 ms after the last one (draw
\* changes nothing here)
loop ==
    /\ steps < MaxFrames
    /\ \E ms \in {Lit(16, 1)} :
          \E dt \in {FrameDt(ms)} :
             \/ /\ useRK4
                /\ \E r \in {stepPhysicsRK4(charges, magnets, dt, simOptions)} :
                      /\ charges' = r.charges
                      /\ stages' = [state0 |-> r.state0, k1 |-> r.k1, k2 |-> r.k2,
                                    k3 |-> r.k3, k4 |-> r.k4]
                /\ Called("stepPhysicsRK4", dt)
             \/ /\ ~useRK4
                /\ ~Singular(charges, magnets, simOptions)
                /\ charges' = stepPhysics(charges, magnets, dt, simOptions)
                /\ Called("stepPhysics", dt)
                /\ UNCHANGED stages
    /\ UNCHANGED probe

\* two moving charges and a magnet on the canvas, nothing pinned, nothing
\* dragged
InitDrag ==
    /\ prec = Precision
    /\ options = simOptions
    /\ charges = <<At(<<Lit(8, 1), Lit(8, 1)>>, <<Lit(96, 1), Lit(-32, 1)>>,
                      Lit(1, 1), Lit(1, 1), FALSE),
                   At(<<Lit(40, 1), Lit(8, 1)>>, <<Lit(96, 1), Lit(-32, 1)>>,
                      Lit(-1, 1), Lit(2, 1), FALSE)>>
    /\ magnets = <<Magnet(Lit(8, 1), Lit(48, 1), Lit(10, 1))>>
    /\ Fresh

NextDrag ==
    \/ mousedown
    \/ mousemove
    \/ mouseup
    \/ mouseleave
    \/ eulerBtn
    \/ rk4Btn
    \/ loop

SpecDrag == InitDrag /\ [][NextDrag]_vars

----------------------------------------------------------------------------
\* Properties of the page

Released == last.op \in {"mouseup", "mouseleave"}

\* C12: a charge or magnet has pinned = true only while dragging refers to
\* it (so at most one is pinned), and after a mouseup or mouseleave none is
\* pinned.
PinnedOnlyWhileDragged ==
    /\ \A i \in 1..Len(charges) : charges[i].pinned => dragging = <<"charge", i>>
    /\ \A i \in 1..Len(magnets) : magnets[i].pinned => dragging = <<"magnet", i>>
    /\ Released =>
          /\ \A i \in 1..Len(charges) : ~charges[i].pinned
          /\ \A i \in 1..Len(magnets) : ~magnets[i].pinned

\* what a step does to charge i, pinned by a mousedown: its velocity is
\* (0, 0) for as long as it is pinned; its position changes only by a
\* mousemove while dragging refers to it, to the position of that event; and
\* the mouseup or mouseleave that unpins it leaves it at rest at the
\* position at
HeldStep(i, at) ==
    /\ charges'[i].pinned => charges'[i].vx = Zero /\ charges'[i].vy = Zero
    /\ charges[i].pinned /\ <<charges'[i].x, charges'[i].y>> # <<charges[i].x, charges[i].y>> =>
          /\ last'.op = "mousemove"
          /\ dragging = <<"charge", i>>
          /\ <<charges'[i].x, charges'[i].y>> = mouse'
    /\ charges[i].pinned /\ ~charges'[i].pinned =>
          /\ Released'
          /\ dragging = <<"charge", i>>
          /\ Kinematics(charges'[i]) = <<at[1], at[2], Zero, Zero>>

\* C13 as stated: ... and the charge is released at rest at the last mouse
\* position (the position of the last mousedown or mousemove).
ReleasedAtMouse == [][\A i \in 1..Len(charges) : HeldStep(i, mouse)]_vars

\* C13: from the mousedown that picks a charge until the mouseup or
\* mouseleave that releases it, through Euler and RK4 frames and mousemove
\* events, its velocity stays (0, 0) and its position changes only by
\* mousemove, to the mouse position; it is released at rest at the position
\* of the last mousemove since it was picked or, if there was none, where it
\* was when it was picked.
ReleasedAtGrip == [][\A i \in 1..Len(charges) : HeldStep(i, <<grip.x, grip.y>>)]_vars

\* a charge that was moving, picked, moved by a mousemove and released, with
\* an animation frame between the pick and the release
DraggedThroughFrame ==
    /\ Released
    /\ grip.moved
    /\ steps > grip.since
    /\ \E i \in 1..Len(charges) :
          /\ pre[i].pinned /\ ~charges[i].pinned
          /\ start[i].vx # Zero
          /\ <<charges[i].x, charges[i].y>> # <<start[i].x, start[i].y>>
          /\ \E j \in 1..Len(charges) :
                j # i /\ ~charges[j].pinned /\ Kinematics(charges[j]) # Kinematics(start[j])

====
